---- MODULE Spec2Model ----
(***************************************************************************)
(* A model of antio's reader for ANT .cnt recordings (src/antio/io.py):    *)
(* _parse_channels, _parse_data, _parse_triggers and RawANT.__init__,      *)
(* which runs the three in sequence.                                       *)
(*                                                                         *)
(* Strings that the code inspects character by character (channel names    *)
(* matched by regular expressions, impedance strings that are split and    *)
(* parsed) are sequences of one-character strings.  Strings that the code  *)
(* only compares, lower-cases or stores are TLA+ strings.                  *)
(*                                                                         *)
(* A function result is a record whose field "raised" is "none" when the   *)
(* function returned, and the name of the Python exception otherwise.      *)
(***************************************************************************)
EXTENDS Integers, Sequences, FiniteSets, TLC

VARIABLES
    cnt,        \* the container read by read_cnt: channels, samples, triggers
    eog,        \* the eog argument: a pattern or None
    misc,       \* the misc argument: a pattern or None
    pc,         \* position of the running call
    result,     \* what the called function returned (or that it raised)
    warnings,   \* messages passed to mne.utils.warn, in order
    infos,      \* messages passed to logger.info, in order
    raw         \* the RawANT object under construction (decode only)

vars == <<cnt, eog, misc, pc, result, warnings, infos, raw>>

\* Python's None and a present value, as sequences of length 0 and 1
None == <<>>
Some(x) == <<x>>
Value(o) == o[1]

\* ------------------------------------------------------------------ bounds
MaxChannels == 2
MaxDataChannels == 2
MaxSamples == 3
MaxTriggers == 2
MaxDecodeChannels == 2
MaxDecodeSamples == 2
MaxDecodeTriggers == 2

\* ------------------------------------------------------- helper operators
Range(s) == {s[i] : i \in DOMAIN s}

SeqsUpTo(S, n) == UNION {[1..k -> S] : k \in 0..n}

Min(a, b) == IF a < b THEN a ELSE b

\* ------------------------------------------------------ regular expressions
(* A compiled pattern is a sequence of atoms; an atom is a set of          *)
(* characters with a quantifier: "1" (exactly one), "*" or "+".            *)
Digits == {"1", "2"}
Alphabet == {"E", "O", "G", "B", "I", "P", "F", "p", "x"} \cup Digits

Lit(c) == [chars |-> {c}, q |-> "1"]

\* the pattern "EOG" of tests/test_io.py
PatEOG == <<Lit("E"), Lit("O"), Lit("G")>>
\* the pattern "EOG.*"
PatEOGAny == <<Lit("E"), Lit("O"), Lit("G"), [chars |-> Alphabet, q |-> "*"]>>
\* the default misc pattern r"BIP\d+"
PatBIP == <<Lit("B"), Lit("I"), Lit("P"), [chars |-> Digits, q |-> "+"]>>

Patterns == {PatEOG, PatEOGAny, PatBIP}
OptionalPatterns == {None} \cup {Some(p) : p \in Patterns}

\* Backtracking match of atoms p[i..] against s[j..].  With full = TRUE the
\* match must end at the end of s (re.fullmatch); with full = FALSE it may end
\* anywhere (re.match).
RECURSIVE MatchFrom(_, _, _, _, _)
MatchFrom(p, s, i, j, full) ==
    IF i > Len(p) THEN (~full) \/ j > Len(s)
    ELSE LET a == p[i]
             here == j <= Len(s) /\ s[j] \in a.chars
         IN  CASE a.q = "1" -> here /\ MatchFrom(p, s, i + 1, j + 1, full)
               [] a.q = "*" -> \/ (here /\ MatchFrom(p, s, i, j + 1, full))
                               \/ MatchFrom(p, s, i + 1, j, full)
               [] a.q = "+" -> here /\ (\/ MatchFrom(p, s, i, j + 1, full)
                                        \/ MatchFrom(p, s, i + 1, j + 1, full))

\* re.match: anchored at the start of the name only
ReMatch(p, s) == MatchFrom(p, s, 1, 1, FALSE)

\* re.fullmatch(pattern, name) is not None
ReFullMatch(p, s) == MatchFrom(p, s, 1, 1, TRUE)

\* ---------------------------------------------------------------- str.lower
Lower(s) ==
    CASE s = "uV" -> "uv"
      [] s = "UV" -> "uv"
      [] s = "mV" -> "mv"
      [] s = "Impedance" -> "impedance"
      [] s = "IMPEDANCE" -> "impedance"
      [] s = "Amplifier Disconnected" -> "amplifier disconnected"
      [] s = "Amplifier Reconnected" -> "amplifier reconnected"
      [] OTHER -> s

\* ------------------------------------------------------------ the container
NameEOG == <<"E", "O", "G">>
NameEOG1x == <<"E", "O", "G", "1", "x">>
NameBIP1 == <<"B", "I", "P", "1">>
NameBIP12 == <<"B", "I", "P", "1", "2">>
NameBIP == <<"B", "I", "P">>
NameFp1 == <<"F", "p", "1">>

ChannelNames == {NameEOG, NameEOG1x, NameBIP1, NameBIP12, NameBIP, NameFp1}
ChannelUnits == {"uV", "mV"}
ChannelRefs == {"CPz", "REF2"}

\* cnt.get_channel(k): (label, unit, reference)
RawChannels == {<<n, u, r>> : n \in ChannelNames, u \in ChannelUnits, r \in ChannelRefs}

EmptyCnt == [channels |-> <<>>, n_samples |-> 0, samples |-> <<>>,
             sfreq |-> 500, triggers |-> <<>>]

get_channel_count(c) == Len(c.channels)
get_sample_count(c) == c.n_samples
get_trigger_count(c) == Len(c.triggers)

\* --------------------------------------------------------- _parse_channels
ChannelType(name, e, m) ==
    IF e # None /\ ReFullMatch(Value(e), name) THEN "eog"
    ELSE IF m # None /\ ReFullMatch(Value(m), name) THEN "misc"
    ELSE "eeg"

InfoAllReferenced == "All %i channels are referenced to %s."
WarnNotSameReference == "All channels are not referenced to the same electrode."

parse_channels(c, e, m) ==
    LET n_channels == get_channel_count(c)
        ch_names == [k \in 1..n_channels |-> c.channels[k][1]]
        ch_units == [k \in 1..n_channels |-> Lower(c.channels[k][2])]
        ch_refs  == [k \in 1..n_channels |-> c.channels[k][3]]
        ch_types == [k \in 1..n_channels |-> ChannelType(c.channels[k][1], e, m)]
        same     == Cardinality(Range(ch_refs)) = 1
    IN  [raised   |-> "none",
         ch_names |-> ch_names,
         ch_units |-> ch_units,
         ch_refs  |-> ch_refs,
         ch_types |-> ch_types,
         infos    |-> IF same
                      THEN <<[msg |-> InfoAllReferenced, n |-> Len(ch_refs),
                              ref |-> ch_refs[1]]>>
                      ELSE <<>>,
         warnings |-> IF same THEN <<>> ELSE <<WarnNotSameReference>>]

\* -------------------------------------------------------------- _parse_data
(* A sample value is m * 10^e: a raw container value v is [m |-> v, e |-> 0] *)
(* and a multiplication adds the exponents, so that a value scaled twice     *)
(* differs from a value scaled once.                                         *)
Float(v) == [m |-> v, e |-> 0]
Times(x, f) == [m |-> x.m * f.m, e |-> x.e + f.e]

\* units = {"uv": 1e-6}
units == "uv" :> [m |-> 1, e |-> -6]

RawValues == {10000, 20000, 30000}

\* cnt.get_samples(0, n): the samples one after the other, each sample being
\* the n_channels values of that instant
get_samples(c, n) == [i \in 1..(n * get_channel_count(c)) |-> Float(c.samples[i])]

\* the value the container holds for sample s (1-based) of channel k (1-based)
ContainerValue(c, k, s) == Float(c.samples[(s - 1) * get_channel_count(c) + k])

\* numpy: a.reshape(rows, -1) of a flat array, row-major
Reshape(flat, rows) ==
    IF rows = 0
    THEN [raised |-> "ValueError"]
    ELSE IF Len(flat) % rows # 0
    THEN [raised |-> "ValueError"]
    ELSE LET cols == Len(flat) \div rows
         IN  [raised |-> "none",
              shape  |-> <<rows, cols>>,
              a      |-> [i \in 1..rows |-> [j \in 1..cols |-> flat[(i - 1) * cols + j]]]]

\* numpy: a.T of a two-dimensional array
Transpose(x) ==
    [raised |-> "none",
     shape  |-> <<x.shape[2], x.shape[1]>>,
     a      |-> [j \in 1..x.shape[2] |-> [i \in 1..x.shape[1] |-> x.a[i][j]]]]

\* the keys of units_index, in insertion order: the distinct units in the
\* order of their first channel
RECURSIVE UnitOrder(_, _)
UnitOrder(ch_units, k) ==
    IF k > Len(ch_units) THEN <<>>
    ELSE IF \E i \in 1..(k - 1) : ch_units[i] = ch_units[k]
         THEN UnitOrder(ch_units, k + 1)
         ELSE <<ch_units[k]>> \o UnitOrder(ch_units, k + 1)

\* units_index[unit]: the 0-based indices of the channels of a unit
UnitsIndex(ch_units, unit) == {i - 1 : i \in {k \in 1..Len(ch_units) : ch_units[k] = unit}}

WarnUnit(unit) == <<"Unit %s not recognized, not scaling.", unit>>

\* data[np.array(value), :] *= factor: rows (0-based) idx of x times factor;
\* an index past the last row raises IndexError
ScaleRows(x, idx, factor) ==
    IF \E i \in idx : i >= x.shape[1]
    THEN [raised |-> "IndexError"]
    ELSE [x EXCEPT !.a = [r \in 1..x.shape[1] |->
                            IF (r - 1) \in idx
                            THEN [j \in 1..x.shape[2] |-> Times(x.a[r][j], factor)]
                            ELSE x.a[r]]]

\* the loop of lines 117-121 from the k-th key of units_index on
RECURSIVE ScaleLoop(_, _, _, _, _)
ScaleLoop(x, ch_units, order, k, warned) ==
    IF k > Len(order)
    THEN [raised |-> "none", data |-> x, warnings |-> warned]
    ELSE IF order[k] \in DOMAIN units
    THEN LET y == ScaleRows(x, UnitsIndex(ch_units, order[k]), units[order[k]])
         IN  IF y.raised # "none"
             THEN [raised |-> y.raised, warnings |-> warned]
             ELSE ScaleLoop(y, ch_units, order, k + 1, warned)
    ELSE ScaleLoop(x, ch_units, order, k + 1, Append(warned, WarnUnit(order[k])))

\* line 112: np.array(data).reshape(n_channels, -1).T
ShapeData(flat, n_channels) ==
    LET r == Reshape(flat, n_channels)
    IN  IF r.raised # "none" THEN r ELSE Transpose(r)

parse_data(c, ch_units) ==
    LET n_channels == get_channel_count(c)
        n_samples == get_sample_count(c)
        x == ShapeData(get_samples(c, n_samples), n_channels)
    IN  IF x.raised # "none"
        THEN [raised |-> x.raised, warnings |-> <<>>]
        ELSE ScaleLoop(x, ch_units, UnitOrder(ch_units, 1), 1, <<>>)

\* ---------------------------------------------------------- _parse_triggers
\* a trigger: cnt.get_trigger(k) =
\*   (code, idx, duration, condition, description, impedance)
Trigger(code, idx, duration, condition, description, impedance) ==
    [code |-> code, idx |-> idx, duration |-> duration, condition |-> condition,
     description |-> description, impedance |-> impedance]

\* impedance strings, character by character: "1 2", "12" and "1  2"
Imp_1_2 == <<"1", " ", "2">>
Imp_12 == <<"1", "2">>
Imp_1__2 == <<"1", " ", " ", "2">>

\* str.split(" "): the pieces between single spaces, empty pieces kept
RECURSIVE SplitSpace(_, _, _)
SplitSpace(s, k, piece) ==
    IF k > Len(s) THEN <<piece>>
    ELSE IF s[k] = " " THEN <<piece>> \o SplitSpace(s, k + 1, <<>>)
    ELSE SplitSpace(s, k + 1, Append(piece, s[k]))

DigitValue == "0" :> 0 @@ "1" :> 1 @@ "2" :> 2

\* float(elt) of a piece made of decimal digits; an empty piece raises
RECURSIVE DecimalValue(_, _)
DecimalValue(piece, k) ==
    IF k = 0 THEN 0 ELSE 10 * DecimalValue(piece, k - 1) + DigitValue[piece[k]]

FloatOf(piece) ==
    IF piece = <<>> \/ \E i \in 1..Len(piece) : piece[i] \notin DOMAIN DigitValue
    THEN [raised |-> "ValueError"]
    ELSE [raised |-> "none", value |-> Float(DecimalValue(piece, Len(piece)))]

\* line 141: [float(elt) for elt in impedance.split(" ")]
FloatList(s) ==
    LET pieces == SplitSpace(s, 1, <<>>)
        fs == [i \in 1..Len(pieces) |-> FloatOf(pieces[i])]
    IN  IF \E i \in 1..Len(fs) : fs[i].raised # "none"
        THEN [raised |-> "ValueError"]
        ELSE [raised |-> "none", value |-> [i \in 1..Len(fs) |-> fs[i].value]]

\* description.append(...) of line 145: description is a str, which has no
\* attribute append
StrAppend(description, x) == [raised |-> "AttributeError"]

\* the loop of lines 133-160 from trigger k on, and the return of line 161;
\* acc holds onsets, durations, descriptions, impedances, start and stop
RECURSIVE TriggerLoop(_, _, _)
TriggerLoop(c, k, acc) ==
    IF k > get_trigger_count(c)
    THEN [raised       |-> "none",
          onsets       |-> acc.onsets,
          durations    |-> acc.durations,
          descriptions |-> acc.descriptions,
          impedances   |-> acc.impedances,
          warnings     |-> <<>>]
    ELSE LET t == c.triggers[k]
         IN  IF /\ t.description # None
                /\ Lower(Value(t.description)) = "impedance"
                /\ t.impedance # None
             THEN LET fl == FloatList(Value(t.impedance))
                  IN  IF fl.raised # "none"
                      THEN [raised |-> fl.raised, warnings |-> <<>>]
                      ELSE [raised   |-> StrAppend(Value(t.description), "BAD_impedance").raised,
                            warnings |-> <<>>]
             ELSE IF t.condition # None
                     /\ Lower(Value(t.condition)) = "amplifier disconnected"
             THEN TriggerLoop(c, k + 1, [acc EXCEPT !.start = Append(@, t.idx)])
             ELSE IF t.condition # None
                     /\ Lower(Value(t.condition)) = "amplifier reconnected"
             THEN TriggerLoop(c, k + 1, [acc EXCEPT !.stop = Append(@, t.idx)])
             ELSE TriggerLoop(c, k + 1,
                    [acc EXCEPT !.onsets = Append(@, t.idx),
                                !.durations = Append(@, t.duration),
                                !.descriptions =
                                    Append(@, IF t.description # None
                                              THEN Value(t.description)
                                              ELSE t.code)])

\* line 130: the names on the left and the values on the right of the
\* assignment; Python raises ValueError when their numbers differ
UnpackTargets == <<"onsets", "durations", "descriptions">>
UnpackValues == <<<<>>, <<>>, <<>>, <<>>>>

EmptyAcc == [onsets |-> <<>>, durations |-> <<>>, descriptions |-> <<>>,
             impedances |-> <<>>, start |-> <<>>, stop |-> <<>>]

\* _parse_triggers with the three lists of line 130 bound to three empty lists
parse_triggers_three_lists(c) == TriggerLoop(c, 1, EmptyAcc)

parse_triggers(c) ==
    IF Len(UnpackTargets) # Len(UnpackValues)
    THEN [raised |-> "ValueError", warnings |-> <<>>]
    ELSE TriggerLoop(c, 1, EmptyAcc)

\* ------------------------------------------- calling _parse_channels alone
InitChannels ==
    /\ \E chs \in SeqsUpTo(RawChannels, MaxChannels) :
          cnt = [EmptyCnt EXCEPT !.channels = chs]
    /\ eog \in OptionalPatterns
    /\ misc \in OptionalPatterns
    /\ pc = "call"
    /\ result = None
    /\ warnings = <<>>
    /\ infos = <<>>
    /\ raw = None

CallParseChannels ==
    /\ pc = "call"
    /\ LET r == parse_channels(cnt, eog, misc)
       IN  /\ result' = r
           /\ warnings' = warnings \o r.warnings
           /\ infos' = infos \o r.infos
    /\ pc' = "returned"
    /\ UNCHANGED <<cnt, eog, misc, raw>>

NextChannels == CallParseChannels

SpecChannels == InitChannels /\ [][NextChannels]_vars

\* ----------------------------------------------- calling _parse_data alone
\* the units of the channels as _parse_channels hands them on: lower-cased
ChUnits(c) == [k \in 1..Len(c.channels) |-> Lower(c.channels[k][2])]

InitData ==
    /\ \E us \in SeqsUpTo(ChannelUnits, MaxDataChannels), n \in 0..MaxSamples :
          \E xs \in [1..(n * Len(us)) -> RawValues] :
              cnt = [EmptyCnt EXCEPT
                        !.channels = [k \in 1..Len(us) |-> <<NameFp1, us[k], "CPz">>],
                        !.n_samples = n,
                        !.samples = xs]
    /\ eog = None
    /\ misc = None
    /\ pc = "call"
    /\ result = None
    /\ warnings = <<>>
    /\ infos = <<>>
    /\ raw = None

CallParseData ==
    /\ pc = "call"
    /\ LET r == parse_data(cnt, ChUnits(cnt))
       IN  /\ result' = r
           /\ warnings' = warnings \o r.warnings
    /\ pc' = "returned"
    /\ UNCHANGED <<cnt, eog, misc, infos, raw>>

NextData == CallParseData

SpecData == InitData /\ [][NextData]_vars

\* ------------------------------------------- calling _parse_triggers alone
TriggerIdx == {1000, 5000}
TriggerDurations == {0, 10}

\* code, condition, description, impedance of the triggers drawn
TriggerShapes ==
    { <<"1", None, Some("stim"), None>>,
      <<"9001", None, None, None>>,
      <<"9001", None, Some(""), None>>,
      <<"0", None, Some("Impedance"), Some(Imp_1_2)>>,
      <<"0", None, Some("impedance"), Some(Imp_1__2)>>,
      <<"0", None, Some("IMPEDANCE"), None>>,
      <<"0", Some("Amplifier Disconnected"), Some("Impedance"), Some(Imp_12)>>,
      <<"9001", Some("Amplifier Disconnected"), None, None>>,
      <<"9002", Some("amplifier reconnected"), None, None>> }

Triggers ==
    {Trigger(sh[1], i, d, sh[2], sh[3], sh[4]) :
        sh \in TriggerShapes, i \in TriggerIdx, d \in TriggerDurations}

InitTriggers ==
    /\ \E ts \in SeqsUpTo(Triggers, MaxTriggers) :
          cnt = [EmptyCnt EXCEPT !.triggers = ts]
    /\ eog = None
    /\ misc = None
    /\ pc = "call"
    /\ result = None
    /\ warnings = <<>>
    /\ infos = <<>>
    /\ raw = None

CallParseTriggers ==
    /\ pc = "call"
    /\ LET r == parse_triggers(cnt)
       IN  /\ result' = r
           /\ warnings' = warnings \o r.warnings
    /\ pc' = "returned"
    /\ UNCHANGED <<cnt, eog, misc, infos, raw>>

NextTriggers == CallParseTriggers

SpecTriggers == InitTriggers /\ [][NextTriggers]_vars

\* -------------------------------------------------------- RawANT.__init__
\* create_info(ch_names, sfreq=..., ch_types=...)
create_info(ch_names, sfreq, ch_types) ==
    [ch_names |-> ch_names, sfreq |-> sfreq, ch_types |-> ch_types]

\* np.array(xs) / sfreq: each sample index as the quotient xs[i] / sfreq
DivideBy(xs, sfreq) == [i \in 1..Len(xs) |-> [num |-> xs[i], den |-> sfreq]]

\* Annotations(onsets, duration=durations, description=descriptions)
Annotations(onsets, durations, descriptions) ==
    [i \in 1..Len(onsets) |->
        [onset |-> onsets[i], duration |-> durations[i], description |-> descriptions[i]]]

\* the channels, sample counts and triggers of the containers decoded
DecodeChannels ==
    { <<NameFp1, "uV", "CPz">>, <<NameBIP1, "uV", "REF2">>, <<NameEOG, "mV", "CPz">> }

DecodeTriggers ==
    { Trigger("1", 1000, 0, None, Some("stim"), None),
      Trigger("9001", 1000, 0, None, None, None),
      Trigger("0", 1000, 10, None, Some("Impedance"), Some(Imp_1_2)),
      Trigger("9001", 1000, 0, Some("Amplifier Disconnected"), None, None),
      Trigger("9002", 5000, 0, Some("amplifier reconnected"), None, None) }

\* the value the container holds at place i of its samples
DecodeSample(i) == IF i % 2 = 1 THEN 10000 ELSE 20000

\* the state when RawANT.__init__ has read the container (line 65)
Init ==
    /\ \E chs \in SeqsUpTo(DecodeChannels, MaxDecodeChannels),
          n \in 0..MaxDecodeSamples,
          ts \in SeqsUpTo(DecodeTriggers, MaxDecodeTriggers) :
          cnt = [channels  |-> chs,
                 n_samples |-> n,
                 samples   |-> [i \in 1..(n * Len(chs)) |-> DecodeSample(i)],
                 sfreq     |-> 500,
                 triggers  |-> ts]
    /\ eog \in {None, Some(PatEOG)}
    /\ misc \in {None, Some(PatBIP)}
    /\ pc = "parse_channels"
    /\ result = None
    /\ warnings = <<>>
    /\ infos = <<>>
    /\ raw = None

\* lines 67-70: _parse_channels and create_info
InitParseChannels ==
    /\ pc = "parse_channels"
    /\ LET r == parse_channels(cnt, eog, misc)
       IN  /\ warnings' = warnings \o r.warnings
           /\ infos' = infos \o r.infos
           /\ raw' = Some([info |-> create_info(r.ch_names, cnt.sfreq, r.ch_types),
                           ch_units |-> r.ch_units,
                           data |-> None,
                           annotations |-> None])
    /\ pc' = "parse_data"
    /\ UNCHANGED <<cnt, eog, misc, result>>

\* lines 71-72: _parse_data and BaseRaw.__init__(info, preload=data); an
\* exception of _parse_data leaves __init__, and the caller gets no object
InitParseData ==
    /\ pc = "parse_data"
    /\ LET r == parse_data(cnt, Value(raw).ch_units)
       IN  /\ warnings' = warnings \o r.warnings
           /\ IF r.raised # "none"
              THEN /\ pc' = "error"
                   /\ result' = [raised |-> r.raised, value |-> None]
                   /\ raw' = None
              ELSE /\ pc' = "parse_triggers"
                   /\ result' = result
                   /\ raw' = Some([Value(raw) EXCEPT !.data = Some(r.data)])
    /\ UNCHANGED <<cnt, eog, misc, infos>>

\* lines 74-78: _parse_triggers, the division by the sampling frequency and
\* set_annotations; the object is returned to the caller after line 78
InitParseTriggers ==
    /\ pc = "parse_triggers"
    /\ LET r == parse_triggers(cnt)
           sfreq == Value(raw).info.sfreq
       IN  /\ warnings' = warnings \o r.warnings
           /\ IF r.raised # "none"
              THEN /\ pc' = "error"
                   /\ result' = [raised |-> r.raised, value |-> None]
                   /\ raw' = None
              ELSE LET self == [Value(raw) EXCEPT !.annotations =
                                   Some(Annotations(DivideBy(r.onsets, sfreq),
                                                    DivideBy(r.durations, sfreq),
                                                    r.descriptions))]
                   IN  /\ pc' = "done"
                       /\ result' = [raised |-> "none", value |-> Some(self)]
                       /\ raw' = Some(self)
    /\ UNCHANGED <<cnt, eog, misc, infos>>

Next == InitParseChannels \/ InitParseData \/ InitParseTriggers

Spec == Init /\ [][Next]_vars

\* ------------------------------------------------------------------ C1, C2
\* Whether an atom accepts the piece s[from..to] of a name.
AtomAccepts(a, s, from, to) ==
    /\ \A i \in from..to : s[i] \in a.chars
    /\ CASE a.q = "1" -> to - from + 1 = 1
         [] a.q = "*" -> TRUE
         [] a.q = "+" -> to - from + 1 >= 1

\* The names a pattern matches as a whole: the names that can be cut into
\* consecutive pieces, one per atom, each accepted by its atom.
WholeNameMatches ==
    [p \in Patterns |->
        {s \in ChannelNames :
            \E cut \in [0..Len(p) -> 0..Len(s)] :
                /\ cut[0] = 0
                /\ cut[Len(p)] = Len(s)
                /\ \A i \in 1..Len(p) :
                      /\ cut[i - 1] <= cut[i]
                      /\ AtomAccepts(p[i], s, cut[i - 1] + 1, cut[i])}]

Matches(o, name) == o # None /\ name \in WholeNameMatches[Value(o)]

ExpectedType(name) ==
    IF Matches(eog, name) THEN "eog"
    ELSE IF Matches(misc, name) THEN "misc"
    ELSE "eeg"

\* C1: _parse_channels returns one type per channel, in container order: eog
\* if the eog pattern is given and matches the whole name, otherwise misc if
\* the misc pattern is given and matches the whole name, otherwise eeg; a name
\* matching both is eog, and "EOG1x" is not typed eog by the pattern "EOG".
C1_ChannelTypes ==
    pc = "returned" =>
        /\ result.raised = "none"
        /\ Len(result.ch_types) = Len(cnt.channels)
        /\ Len(result.ch_names) = Len(cnt.channels)
        /\ \A k \in 1..Len(cnt.channels) :
              /\ result.ch_names[k] = cnt.channels[k][1]
              /\ result.ch_types[k] = ExpectedType(cnt.channels[k][1])
              /\ (Matches(eog, cnt.channels[k][1]) /\ Matches(misc, cnt.channels[k][1]))
                    => result.ch_types[k] = "eog"
              /\ (eog = Some(PatEOG) /\ cnt.channels[k][1] = NameEOG1x)
                    => result.ch_types[k] # "eog"

\* A call has returned in which one name matches both patterns and is typed
\* eog, and "EOG1x" met the eog pattern "EOG" and was typed by the misc
\* pattern instead.
C1_Witness ==
    /\ pc = "returned"
    /\ eog = Some(PatEOG)
    /\ misc = Some(PatEOGAny)
    /\ Len(cnt.channels) = 2
    /\ cnt.channels[1][1] = NameEOG
    /\ result.ch_types[1] = "eog"
    /\ cnt.channels[2][1] = NameEOG1x
    /\ result.ch_types[2] = "misc"

\* The references of the channels typed eeg.
EegRefs ==
    {result.ch_refs[k] : k \in {i \in 1..Len(result.ch_types) : result.ch_types[i] = "eeg"}}

\* C2: the reference warning is emitted if and only if the channels typed eeg
\* carry more than one distinct reference; otherwise there is no warning and
\* an informational note names the common reference of the eeg channels.
\* Stated for the calls with at least one channel typed eeg.
C2_WarnIffEegRefsDiffer ==
    (pc = "returned" /\ EegRefs # {}) =>
        /\ (warnings # <<>>) <=> (Cardinality(EegRefs) > 1)
        /\ Cardinality(EegRefs) = 1 =>
              \E i \in 1..Len(infos) : infos[i].ref \in EegRefs

\* ----------------------------------------------------------------- C9, C10
\* C9: after _parse_data every sample of every channel whose unit is in the
\* unit table is the container's value times the unit's factor, once, and
\* every sample of every other channel is the container's value unchanged.
C9_ScaledOnce ==
    (pc = "returned" /\ get_channel_count(cnt) >= 1 /\ get_sample_count(cnt) >= 1) =>
        /\ result.raised = "none"
        /\ \A k \in 1..get_channel_count(cnt) : \A s \in 1..get_sample_count(cnt) :
              /\ k <= Len(result.data.a)
              /\ s <= Len(result.data.a[k])
              /\ result.data.a[k][s] =
                    IF ChUnits(cnt)[k] \in DOMAIN units
                    THEN Times(ContainerValue(cnt, k, s), units[ChUnits(cnt)[k]])
                    ELSE ContainerValue(cnt, k, s)

\* C10: the matrix _parse_data returns has one row per channel and one column
\* per sample.
C10_ShapeChannelsBySamples ==
    (pc = "returned" /\ result.raised = "none") =>
        /\ result.data.shape = <<get_channel_count(cnt), get_sample_count(cnt)>>
        /\ Len(result.data.a) = get_channel_count(cnt)

\* ------------------------------------------------------------------- C3-C6
\* the kinds of trigger, as the reader is meant to tell them apart
IsImpedance(t) ==
    /\ t.description # None
    /\ Value(t.description) \in {"impedance", "Impedance", "IMPEDANCE"}
    /\ t.impedance # None
IsDisconnect(t) ==
    /\ ~IsImpedance(t)
    /\ t.condition # None
    /\ Value(t.condition) \in {"amplifier disconnected", "Amplifier Disconnected"}
IsReconnect(t) ==
    /\ ~IsImpedance(t)
    /\ t.condition # None
    /\ Value(t.condition) \in {"amplifier reconnected", "Amplifier Reconnected"}
IsOrdinary(t) == ~IsImpedance(t) /\ ~IsDisconnect(t) /\ ~IsReconnect(t)

\* the places in the trigger list of the triggers of a kind, in order
RECURSIVE Places(_, _)
Places(Kind(_), k) ==
    IF k > Len(cnt.triggers) THEN <<>>
    ELSE IF Kind(cnt.triggers[k]) THEN <<k>> \o Places(Kind, k + 1)
    ELSE Places(Kind, k + 1)

Starts == Places(IsDisconnect, 1)
Stops == Places(IsReconnect, 1)
Pairs == Min(Len(Starts), Len(Stops))

\* the annotations returned with a given onset, duration and one of the labels
Spans(onset, duration, labels) ==
    {a \in 1..Len(result.onsets) :
        /\ result.onsets[a] = onset
        /\ result.durations[a] = duration
        /\ result.descriptions[a] \in labels}

AllLabels == {result.descriptions[a] : a \in 1..Len(result.descriptions)}

\* C3: the i-th disconnect is paired with the i-th reconnect, and each pair
\* gives one span in the returned annotations from the disconnect's sample
\* index to the reconnect's.
C3_PairedSpans ==
    (pc = "returned" /\ Pairs >= 1) =>
        /\ result.raised = "none"
        /\ Len(result.onsets) >= Pairs
        /\ \A i \in 1..Pairs :
              LET start == cnt.triggers[Starts[i]].idx
                  stop == cnt.triggers[Stops[i]].idx
              IN  Spans(start, stop - start, AllLabels) # {}

\* the list of floats an impedance string stands for
ExpectedImpedance(s) ==
    CASE s = Imp_1_2 -> <<Float(1), Float(2)>>
      [] s = Imp_12 -> <<Float(12)>>
      [] s = Imp_1__2 -> <<Float(1), Float(2)>>

\* C4: an impedance trigger stores its impedance string as a list of floats
\* under its sample index and gives exactly one span labelled BAD_impedance
\* with its onset and duration, and nothing else.
C4_ImpedanceTrigger ==
    (pc = "returned" /\ Len(cnt.triggers) = 1 /\ IsImpedance(cnt.triggers[1])) =>
        LET t == cnt.triggers[1]
        IN  /\ result.raised = "none"
            /\ t.idx \in DOMAIN result.impedances
            /\ result.impedances[t.idx] = ExpectedImpedance(Value(t.impedance))
            /\ Len(result.onsets) = 1
            /\ Spans(t.idx, t.duration, {"BAD_impedance"}) = {1}

\* the label of an ordinary trigger: its description if non-empty, else its code
ExpectedLabel(t) ==
    IF t.description # None /\ Value(t.description) # ""
    THEN Value(t.description)
    ELSE t.code

\* C5: an ordinary trigger gives exactly one span with its onset, its duration
\* and, as label, its description if non-empty and its code otherwise.
C5_OrdinaryTrigger ==
    (pc = "returned" /\ Len(cnt.triggers) = 1 /\ IsOrdinary(cnt.triggers[1])) =>
        LET t == cnt.triggers[1]
        IN  /\ result.raised = "none"
            /\ Len(result.onsets) = 1
            /\ Spans(t.idx, t.duration, {ExpectedLabel(t)}) = {1}

\* C6: with unequal numbers of disconnect and reconnect triggers the call
\* returns, with the annotations of the other triggers, and warns.
C6_UnmatchedPairWarns ==
    (pc = "returned" /\ Len(Starts) # Len(Stops)) =>
        /\ result.raised = "none"
        /\ \A k \in 1..Len(cnt.triggers) :
              IsOrdinary(cnt.triggers[k]) =>
                  Spans(cnt.triggers[k].idx, cnt.triggers[k].duration,
                        {ExpectedLabel(cnt.triggers[k])}) # {}
        /\ warnings # <<>>

\* ------------------------------------------------------------------ C7, C8
Terminal == pc \in {"done", "error"}

C8_WellFormedDecodes ==
    (Terminal /\ get_channel_count(cnt) >= 1 /\ get_sample_count(cnt) >= 1) =>
        /\ pc = "done"
        /\ result.raised = "none"
        /\ result.value # None

====
